---- MODULE Spec2Model ----
(***************************************************************************)
(* luau_lsl_compile (src/src/luau_lsl_compile_wrapper.cpp): the extern "C" *)
(* bridge that drives compileLSLOrThrow and flattens its outcome (bytecode *)
(* or a thrown ParseErrors / CompileError / anything else) into one        *)
(* malloc'ed buffer, *outsize and *is_error.                               *)
(*                                                                         *)
(* Text and bytecode are sequences of byte values (ASCII codes), so that   *)
(* embedded zero bytes, lengths and truncation are what they are in the    *)
(* code.  One call is a sequence of steps (pc) so that the values of the   *)
(* out-parameters between the steps can be stated.                         *)
(***************************************************************************)
EXTENDS Integers, Sequences, FiniteSets

(* ------------------------------ bounds -------------------------------- *)

\* The largest number of errors one ParseErrors exception carries.
MaxErrors == 2

(* ------------------------- program constants -------------------------- *)

\* char line_msg[256] of the ParseErrors handler.
LineMsgSize == 256

\* char line_msg[512] of the CompileError handler.
CompileMsgSize == 512

\* The longest std::string held without a heap allocation (libstdc++).
SmallStringCapacity == 15

(* ------------------------------- text --------------------------------- *)

Min(a, b) == IF a < b THEN a ELSE b

\* The first n bytes of s (all of s when it is shorter).
Take(s, n) == SubSeq(s, 1, Min(n, Len(s)))

\* n bytes 'a'.
Fill(n) == [i \in 1..n |-> 97]

\* ": Parse Errors:"
ParseHeader == <<58, 32, 80, 97, 114, 115, 101, 32, 69, 114, 114, 111, 114, 115, 58>>

\* "\nLine "
LinePrefix == <<10, 76, 105, 110, 101, 32>>

\* ": "
ColonSpace == <<58, 32>>

\* ":"
Colon == <<58>>

\* "Unknown compilation error"
UnknownError == <<85, 110, 107, 110, 111, 119, 110, 32, 99, 111, 109, 112, 105,
                  108, 97, 116, 105, 111, 110, 32, 101, 114, 114, 111, 114>>

\* printf's %d of a line number below 2^31: its decimal digits.
RECURSIVE FormatD(_)
FormatD(n) == IF n < 10 THEN <<48 + n>> ELSE FormatD(n \div 10) \o <<48 + (n % 10)>>

\* The formatted text stored whole, whatever the size of the buffer (sprintf).
SnprintfUnbounded(bufsize, text) == text

\* snprintf(buf, bufsize, ...) followed by reading buf as a C string: at most
\* bufsize - 1 bytes of the formatted text are stored before the terminator.
Snprintf(bufsize, text) == Take(text, bufsize - 1)

\* snprintf(line_msg, sizeof(line_msg), "\nLine %d: %s", line, what)
ParseLine(error) ==
    Snprintf(LineMsgSize, LinePrefix \o FormatD(error.line) \o ColonSpace \o error.what)

\* The compile line with the header of the parse diagnostic before it.
CompileLineWithHeader(error) ==
    Snprintf(CompileMsgSize,
             ParseHeader \o Colon \o FormatD(error.line) \o ColonSpace \o error.what)

\* snprintf(line_msg, sizeof(line_msg), ":%d: %s", line, what)
CompileLine(error) ==
    Snprintf(CompileMsgSize, Colon \o FormatD(error.line) \o ColonSpace \o error.what)

\* strcpy: the bytes before the first zero byte.
RECURSIVE Strcpy(_)
Strcpy(bytes) ==
    IF bytes = <<>> \/ Head(bytes) = 0 THEN <<>>
    ELSE <<Head(bytes)>> \o Strcpy(Tail(bytes))

\* memcpy(copy, result.data(), result.size()): all the bytes, zero bytes included.
Memcpy(bytes) == bytes

\* The outcomes of building a std::string of len bytes: TRUE (built) or FALSE
\* (std::bad_alloc); a string within the small-string capacity needs no heap.
StringAlloc(len) == IF len > SmallStringCapacity THEN {TRUE, FALSE} ELSE {TRUE}

(* --------------------- the compiler pipeline (opaque) ----------------- *)

\* What compileLSLOrThrow does with one source text: it fills the bytecode
\* builder, or throws Luau::ParseErrors (one or more located messages),
\* Luau::CompileError (one located message) or something else.
Success(bytecode) == [kind |-> "success", bytecode |-> bytecode, errors |-> <<>>]
ParseErrors(errors) == [kind |-> "ParseErrors", bytecode |-> <<>>, errors |-> errors]
CompileError(error) == [kind |-> "CompileError", bytecode |-> <<>>, errors |-> <<error>>]
OtherFailure == [kind |-> "other", bytecode |-> <<>>, errors |-> <<>>]

\* Bytecode blobs: empty, one with embedded zero bytes, and one too long for
\* the small-string buffer (its last byte is 7, zero bytes before it).
Bytecodes == {<<>>, <<6, 0, 1>>, [i \in 1..(2 * SmallStringCapacity) |-> IF i % 2 = 0 THEN 0 ELSE 7]}

\* A message one byte too long for line_msg[256] on a two-digit line.
LongWhat == Fill(LineMsgSize - 10)

\* "Line ?": a message that itself holds the literal "Line ".
LiteralWhat == <<76, 105, 110, 101, 32, 63>>

\* A message that exactly fits line_msg[512] on a one-digit line and is one
\* byte too long on a two-digit line.
LongCompileWhat == Fill(CompileMsgSize - 5)

\* "x"
ShortWhat == <<120>>

ParseErrorPool ==
    {[line |-> 12, what |-> LongWhat], [line |-> 1, what |-> LiteralWhat],
     [line |-> 0, what |-> ShortWhat]}

CompileErrorPool ==
    {[line |-> 1, what |-> LongCompileWhat], [line |-> 12, what |-> LongCompileWhat],
     [line |-> 0, what |-> ShortWhat]}

Outcomes ==
    {Success(b) : b \in Bytecodes}
    \cup {ParseErrors(es) : es \in UNION {[1..k -> ParseErrorPool] : k \in 1..MaxErrors}}
    \cup {CompileError(e) : e \in CompileErrorPool}
    \cup {OtherFailure}

\* The caller's buffers and the sizes it passes; the bytes past size are not
\* part of the source.
Buffers == {<<0, 65>>, <<0, 66>>}
Sizes == {0, 1}

\* std::string(source, size): exactly the bytes [source, source + size).
SourceString(buffer, n) == Take(buffer, n)

Inputs == {SourceString(b, n) : b \in Buffers, n \in Sizes}

\* Values the caller's out-parameters may hold before the call.
StaleSizes == {7}

NullPtr == [null |-> TRUE, bytes |-> <<>>]
NoCall == [input |-> <<>>, called |-> FALSE, variant |-> "none", is_error |-> FALSE,
           outsize |-> 0, copy |-> NullPtr]

(* ------------------------------- state -------------------------------- *)

VARIABLES
    pipeline,   \* compileLSLOrThrow as a function of the source text
    pc,         \* where the call is: idle, entry, try, catch_*, alloc, returned, escaped
    source,     \* the caller's buffer
    size,       \* the size argument
    outsize,    \* *outsize
    is_error,   \* *is_error
    result,     \* std::string result
    msg,        \* std::string msg of the ParseErrors handler
    idx,        \* position of the range-for over e.getErrors()
    copy,       \* the returned pointer
    variant,    \* which outcome branch ran
    clean,      \* no allocation of this call has failed
    kept        \* an earlier call's outputs, kept by the caller for comparison

vars == <<pipeline, pc, source, size, outsize, is_error, result, msg, idx, copy,
          variant, clean, kept>>

Input == SourceString(source, size)

Init ==
    /\ pipeline \in [Inputs -> Outcomes]
    /\ pc = "idle"
    /\ source = <<>>
    /\ size = 0
    /\ outsize = 0
    /\ is_error = FALSE
    /\ result = <<>>
    /\ msg = <<>>
    /\ idx = 0
    /\ copy = NullPtr
    /\ variant = "none"
    /\ clean = TRUE
    /\ kept = NoCall

(* ------------------------------ the call ------------------------------ *)

\* The caller invokes luau_lsl_compile(source, size, &outsize, &is_error) with
\* out-parameters it has not initialised.
Call ==
    /\ pc = "idle"
    /\ source' \in Buffers
    /\ size' \in Sizes
    /\ outsize' \in StaleSizes
    /\ is_error' \in BOOLEAN
    /\ pc' = "entry"
    /\ UNCHANGED <<pipeline, result, msg, idx, copy, variant, clean, kept>>

\* Lines 20-21 without line 19: *outsize keeps the caller's value.
EnterNoInit ==
    /\ pc = "entry"
    /\ result' = <<>>
    /\ pc' = "try"
    /\ UNCHANGED <<pipeline, source, size, outsize, is_error, msg, idx, copy, variant,
                   clean, kept>>

\* Lines 19-21: *outsize = 0; BytecodeBuilder bcb; std::string result.
Enter ==
    /\ pc = "entry"
    /\ outsize' = 0
    /\ result' = <<>>
    /\ pc' = "try"
    /\ UNCHANGED <<pipeline, source, size, is_error, msg, idx, copy, variant, clean, kept>>

\* A std::bad_alloc thrown inside the try block: caught by catch (...).
ThrowInTry ==
    /\ pc' = "catch_all"
    /\ clean' = FALSE
    /\ UNCHANGED <<is_error, result, variant>>

\* Lines 23-27, the try block without *is_error = false.
TryStaleFlag ==
    /\ pc = "try"
    /\ \E built \in StringAlloc(size) :
         IF ~built THEN ThrowInTry
         ELSE LET o == pipeline[Input] IN
              IF o.kind = "success"
              THEN \E copied \in StringAlloc(Len(o.bytecode)) :
                     IF ~copied THEN ThrowInTry
                     ELSE /\ result' = o.bytecode
                          /\ variant' = "Success"
                          /\ pc' = "alloc"
                          /\ UNCHANGED <<is_error, clean>>
              ELSE /\ pc' = CASE o.kind = "ParseErrors" -> "catch_parse"
                              [] o.kind = "CompileError" -> "catch_compile"
                              [] OTHER -> "catch_all"
                   /\ UNCHANGED <<is_error, result, variant, clean>>
    /\ UNCHANGED <<pipeline, source, size, outsize, msg, idx, copy, kept>>

\* Lines 23-27: the try block, to its end or to the throw that leaves it.
Try ==
    /\ pc = "try"
    /\ \E built \in StringAlloc(size) :
         IF ~built THEN ThrowInTry
         ELSE LET o == pipeline[Input] IN
              IF o.kind = "success"
              THEN \E copied \in StringAlloc(Len(o.bytecode)) :
                     IF ~copied THEN ThrowInTry
                     ELSE /\ result' = o.bytecode
                          /\ is_error' = FALSE
                          /\ variant' = "Success"
                          /\ pc' = "alloc"
                          /\ UNCHANGED clean
              ELSE /\ pc' = CASE o.kind = "ParseErrors" -> "catch_parse"
                              [] o.kind = "CompileError" -> "catch_compile"
                              [] OTHER -> "catch_all"
                   /\ UNCHANGED <<is_error, result, variant, clean>>
    /\ UNCHANGED <<pipeline, source, size, outsize, msg, idx, copy, kept>>

\* A std::bad_alloc thrown inside a handler: no handler of this try block
\* catches it, and it leaves luau_lsl_compile.
ThrowInHandler ==
    /\ pc' = "escaped"
    /\ clean' = FALSE
    /\ msg' = <<>>
    /\ idx' = 0
    /\ UNCHANGED <<is_error, result, variant>>

\* Line 30: std::string msg = ": Parse Errors:".
CatchParse ==
    /\ pc = "catch_parse"
    /\ \E built \in StringAlloc(Len(ParseHeader)) :
         IF ~built THEN ThrowInHandler
         ELSE /\ msg' = ParseHeader
              /\ idx' = 1
              /\ pc' = "parse_loop"
              /\ UNCHANGED <<is_error, result, variant, clean>>
    /\ UNCHANGED <<pipeline, source, size, outsize, copy, kept>>

\* The errors visited from the last to the first.
ErrorAtReversed(errors, i) == errors[Len(errors) + 1 - i]

\* The error the range-for visits at its i-th iteration.
ErrorAt(errors, i) == errors[i]

\* Lines 31-38: one iteration of the loop (format a line, append it), or,
\* past the last error, result = msg; *is_error = true.
ParseLoop ==
    /\ pc = "parse_loop"
    /\ LET errors == pipeline[Input].errors IN
       IF idx <= Len(errors)
       THEN LET line_msg == ParseLine(ErrorAt(errors, idx)) IN
            \E grown \in StringAlloc(Len(msg) + Len(line_msg)) :
              IF ~grown THEN ThrowInHandler
              ELSE /\ msg' = msg \o line_msg
                   /\ idx' = idx + 1
                   /\ UNCHANGED <<pc, is_error, result, variant, clean>>
       ELSE \E copied \in StringAlloc(Len(msg)) :
              IF ~copied THEN ThrowInHandler
              ELSE /\ result' = msg
                   /\ is_error' = TRUE
                   /\ variant' = "ParseFailure"
                   /\ msg' = <<>>
                   /\ idx' = 0
                   /\ pc' = "alloc"
                   /\ UNCHANGED clean
    /\ UNCHANGED <<pipeline, source, size, outsize, copy, kept>>

\* Lines 40-46: the CompileError handler.
CatchCompile ==
    /\ pc = "catch_compile"
    /\ LET line_msg == CompileLine(pipeline[Input].errors[1]) IN
       \E built \in StringAlloc(Len(line_msg)) :
         IF ~built THEN ThrowInHandler
         ELSE /\ result' = line_msg
              /\ is_error' = TRUE
              /\ variant' = "CompileFailure"
              /\ pc' = "alloc"
              /\ UNCHANGED <<msg, idx, clean>>
    /\ UNCHANGED <<pipeline, source, size, outsize, copy, kept>>

\* Lines 47-50 without *is_error = true.
CatchAllStaleFlag ==
    /\ pc = "catch_all"
    /\ \E built \in StringAlloc(Len(UnknownError)) :
         IF ~built THEN ThrowInHandler
         ELSE /\ result' = UnknownError
              /\ variant' = "InternalFailure"
              /\ pc' = "alloc"
              /\ UNCHANGED <<is_error, msg, idx, clean>>
    /\ UNCHANGED <<pipeline, source, size, outsize, copy, kept>>

\* Lines 47-50: catch (...).
CatchAll ==
    /\ pc = "catch_all"
    /\ \E built \in StringAlloc(Len(UnknownError)) :
         IF ~built THEN ThrowInHandler
         ELSE /\ result' = UnknownError
              /\ is_error' = TRUE
              /\ variant' = "InternalFailure"
              /\ pc' = "alloc"
              /\ UNCHANGED <<msg, idx, clean>>
    /\ UNCHANGED <<pipeline, source, size, outsize, copy, kept>>

\* Lines 52-58: malloc(result.size()); a null pointer is returned as it is,
\* otherwise the payload is copied and *outsize set.  malloc may return null
\* for any size.
Alloc ==
    /\ pc = "alloc"
    /\ \E allocated \in BOOLEAN :
         IF allocated
         THEN /\ copy' = [null |-> FALSE, bytes |-> Memcpy(result)]
              /\ outsize' = Len(result)
              /\ UNCHANGED clean
         ELSE /\ copy' = NullPtr
              /\ clean' = FALSE
              /\ UNCHANGED outsize
    /\ pc' = "returned"
    /\ UNCHANGED <<pipeline, source, size, is_error, result, msg, idx, variant, kept>>

(* ----------------------------- the caller ----------------------------- *)

Forget ==
    /\ pc' = "idle"
    /\ source' = <<>>
    /\ size' = 0
    /\ outsize' = 0
    /\ is_error' = FALSE
    /\ result' = <<>>
    /\ copy' = NullPtr
    /\ variant' = "none"
    /\ clean' = TRUE
    /\ UNCHANGED <<pipeline, msg, idx>>

\* The caller keeps the outputs of a call in which no allocation failed, to
\* compare a later call with them.
Keep ==
    /\ pc = "returned"
    /\ clean
    /\ kept' = [input |-> Input, called |-> TRUE, variant |-> variant,
                is_error |-> is_error, outsize |-> outsize, copy |-> copy]
    /\ Forget

\* The caller is done with the outputs and frees the buffer.
Release ==
    /\ pc = "returned"
    /\ UNCHANGED kept
    /\ Forget

Next ==
    \/ Call
    \/ Enter
    \/ Try
    \/ CatchParse
    \/ ParseLoop
    \/ CatchCompile
    \/ CatchAll
    \/ Alloc
    \/ Keep
    \/ Release

Spec == Init /\ [][Next]_vars

(* ----------------------------- the claims ----------------------------- *)

\* The compilation outcome of the call in progress.
Outcome == pipeline[Input]

\* The number of places at which pattern occurs in text.
Occurrences(pattern, text) ==
    Cardinality({i \in 1..(Len(text) - Len(pattern) + 1) :
                   SubSeq(text, i, i + Len(pattern) - 1) = pattern})

\* "Line "
LineLiteral == <<76, 105, 110, 101, 32>>

\* newline, "Line ", the line number, ": ", the whole message.
WholeLine(error) ==
    <<10>> \o LineLiteral \o FormatD(error.line) \o <<58, 32>> \o error.what

\* The whole lines of the errors, in their order.
RECURSIVE WholeLines(_)
WholeLines(errors) ==
    IF errors = <<>> THEN <<>>
    ELSE WholeLine(Head(errors)) \o WholeLines(Tail(errors))

\* The lines of the errors, in their order, each cut to its first 255 bytes.
RECURSIVE CutLines(_)
CutLines(errors) ==
    IF errors = <<>> THEN <<>>
    ELSE Take(WholeLine(Head(errors)), 255) \o CutLines(Tail(errors))

\* ":L: M"
WholeCompileLine(error) == <<58>> \o FormatD(error.line) \o <<58, 32>> \o error.what

\* C1: when a call returns, *is_error is true on every failure branch (parse,
\* compile, anything else) and false only when the pipeline completed; exactly
\* one of the four variants was selected and it determines flag and payload.
C1_FlagFollowsVariant ==
    pc = "returned" =>
      /\ variant \in {"Success", "ParseFailure", "CompileFailure", "InternalFailure"}
      /\ is_error = (variant # "Success")
      /\ (Outcome.kind # "success" => is_error)
      /\ (~is_error => Outcome.kind = "success" /\ result = Outcome.bytecode)
      /\ (variant = "ParseFailure" =>
            Outcome.kind = "ParseErrors" /\ Take(result, 15) = ParseHeader)
      /\ (variant = "CompileFailure" =>
            Outcome.kind = "CompileError" /\ Take(result, 1) = <<58>>)
      /\ (variant = "InternalFailure" => result = UnknownError)

\* A call returned after the pipeline threw something that is neither
\* ParseErrors nor CompileError.
C1_Witness ==
    /\ pc = "returned"
    /\ Outcome.kind = "other"
    /\ variant = "InternalFailure"
    /\ is_error

\* C2: a non-null returned buffer holds exactly the payload bytes, *outsize is
\* their number, and on success they are the whole bytecode, zero bytes included.
C2_BufferIsWholePayload ==
    (pc = "returned" /\ ~copy.null) =>
      /\ outsize = Len(result)
      /\ copy.bytes = result
      /\ Len(copy.bytes) = outsize
      /\ (~is_error => copy.bytes = Outcome.bytecode)

\* A successful call returned bytecode that holds a zero byte before its end.
C2_Witness ==
    /\ pc = "returned"
    /\ ~copy.null
    /\ ~is_error
    /\ outsize > 3
    /\ \E i \in 1..(outsize - 1) : copy.bytes[i] = 0

\* C3 as stated: the parse diagnostic is the header followed by the whole line
\* of every error in the pipeline's order, and holds exactly N times "Line ".
C3_ParseDiagnosticWhole ==
    (pc = "returned" /\ variant = "ParseFailure") =>
      /\ result = ParseHeader \o WholeLines(Outcome.errors)
      /\ Occurrences(LineLiteral, result) = Len(Outcome.errors)

\* C3 (amended): the parse diagnostic is the header followed, for every error
\* in the pipeline's order (no re-sorting, no de-duplication), by its line cut
\* to the first 255 bytes; it holds at least N times "Line ", and exactly N
\* times when no message itself holds "Line ".
C3_ParseDiagnosticCut ==
    (pc = "returned" /\ variant = "ParseFailure") =>
      /\ result = ParseHeader \o CutLines(Outcome.errors)
      /\ Occurrences(LineLiteral, result) >= Len(Outcome.errors)
      /\ (\A i \in 1..Len(Outcome.errors) :
             Occurrences(LineLiteral, Outcome.errors[i].what) = 0)
           => Occurrences(LineLiteral, result) = Len(Outcome.errors)

\* Two parse errors, the later line first, the first of them cut.
C3_Witness ==
    /\ pc = "returned"
    /\ variant = "ParseFailure"
    /\ Len(Outcome.errors) = 2
    /\ Outcome.errors[1].line > Outcome.errors[2].line
    /\ Len(WholeLine(Outcome.errors[1])) > 255

\* C4 as stated: after a CompileError on line L with message M the payload is
\* ":L: M" whatever the length of M, and *is_error is true.
C4_CompileDiagnosticWhole ==
    (pc = "returned" /\ Outcome.kind = "CompileError") =>
      /\ result = WholeCompileLine(Outcome.errors[1])
      /\ is_error

\* C4 (amended): after a CompileError on line L with message M the payload is
\* the first 511 bytes of ":L: M" (all of it when it is no longer), with no
\* header, and *is_error is true.
C4_CompileDiagnosticCut ==
    (pc = "returned" /\ Outcome.kind = "CompileError") =>
      /\ result = Take(WholeCompileLine(Outcome.errors[1]), 511)
      /\ is_error

\* A compile error whose ":L: M" is one byte longer than fits.
C4_Witness ==
    /\ pc = "returned"
    /\ Outcome.kind = "CompileError"
    /\ Len(WholeCompileLine(Outcome.errors[1])) = 512
    /\ Len(result) = 511

\* C5: no exception leaves luau_lsl_compile, and a failure that is neither
\* ParseErrors nor CompileError returns "Unknown compilation error" with
\* *is_error true.
C5_NothingEscapes ==
    /\ pc # "escaped"
    /\ (pc = "returned" /\ Outcome.kind = "other") =>
          (result = UnknownError /\ is_error)

\* C6: when a call returns, *outsize is 0 exactly when the returned pointer is
\* null, and exactly one of (the pointer is null) and (a payload is returned
\* and *outsize is its length) holds.
C6_ZeroSizeIffNull ==
    pc = "returned" =>
      /\ (outsize = 0) <=> copy.null
      /\ copy.null # (~copy.null /\ outsize = Len(copy.bytes))

\* C7: *outsize is 0 from the entry of the function until the buffer has been
\* allocated, and a call whose malloc failed returns null with *outsize 0 and
\* hands out no bytes, whatever the outcome of the compilation.
C7_OutsizeZeroUntilAllocated ==
    /\ pc \in {"try", "catch_parse", "parse_loop", "catch_compile", "catch_all",
               "alloc", "escaped"} => outsize = 0
    /\ (pc = "returned" /\ copy.null) => (outsize = 0 /\ copy.bytes = <<>>)
    /\ (pc = "returned" /\ ~copy.null) => outsize = Len(copy.bytes)

\* malloc failed after a parse failure had been formatted.
C7_Witness ==
    /\ pc = "returned"
    /\ copy.null
    /\ variant = "ParseFailure"
    /\ is_error
    /\ Len(result) > 0

C10_DiagnosticsBounded ==
    [][/\ pc = "parse_loop" => Len(msg') <= Len(msg) + 255
       /\ (pc' = "returned" /\ variant' = "ParseFailure") =>
            Len(result') <= 15 + 255 * Len(Outcome'.errors)
       /\ (pc' = "returned" /\ variant' = "CompileFailure") => Len(result') <= 511]_vars

\* A parse diagnostic of two errors, both lines longer than the buffer.
C10_Witness ==
    /\ pc = "returned"
    /\ variant = "ParseFailure"
    /\ Len(Outcome.errors) = 2
    /\ \A i \in 1..2 : Len(WholeLine(Outcome.errors[i])) > 255
    /\ Len(result) = 15 + 255 * 2

====
